---- MODULE Spec2Model ----
(***************************************************************************)
(* Model of backend/main.py: the POST /ocr handler process_ocr, its nested *)
(* merge_json, and the output formatter custom_json_format.                *)
(*                                                                         *)
(* Python dicts and lists are mutable objects reached through references,  *)
(* so the model keeps an explicit object heap: merge_json assigns into the *)
(* dict it is given and stores the incoming values by reference, exactly   *)
(* as the source does.  Strings, numbers, booleans and None are immutable  *)
(* and are held by value.  A string is a sequence of one-character strings *)
(* so that stripping, serialisation and parsing work on characters.        *)
(***************************************************************************)
EXTENDS Integers, Sequences, FiniteSets, TLC

VARIABLES
    \* ---- one POST /ocr request (process_ocr) ----
    provider,          \* form field provider (a string, as its characters)
    files,             \* the uploaded files, in upload order
    stub,              \* the JSON values the extraction service may answer with,
                       \* for a file that is an image and for a page of a PDF
    pc,                \* position of the handler
    heap,              \* the request's Python objects (dicts and lists)
    fi,                \* index of the file the for loop is at
    pg,                \* pages of the current PDF already processed
    pdf_json_data,     \* the accumulator of the current PDF
    all_json_data,     \* the list of {"filename", "content"} records
    merged_json_data,  \* the envelope, as the JSON value json.dumps sees
    responses,         \* the HTTP responses sent for the request
    extracted,         \* per file, the values the extractor returned (observer)
    raised,            \* the exception raised in the handler, if any (observer)
    rasterCalls,       \* calls of convert_from_bytes so far (observer)
    extractCalls,      \* calls of process_image_* so far (observer)
    \* ---- one direct call of merge_json ----
    m_existing,        \* the argument existing, as a JSON value, before the call
    m_new,             \* the argument new, as a JSON value, before the call
    m_heap,            \* the objects of the call
    m_eref,            \* the argument existing as passed
    m_nref,            \* the argument new as passed
    m_ret,             \* the returned value
    m_done             \* whether the call has returned

ocrVars == <<provider, files, stub, pc, heap, fi, pg, pdf_json_data, all_json_data,
             merged_json_data, responses, extracted, raised, rasterCalls,
             extractCalls>>
mergeVars == <<m_existing, m_new, m_heap, m_eref, m_nref, m_ret, m_done>>
vars == <<ocrVars, mergeVars>>

(***************************************************************************)
(* JSON values (what json.loads returns and json.dumps prints).            *)
(***************************************************************************)
Num(n) == [t |-> "num", v |-> n]
Str(s) == [t |-> "str", v |-> s]
Bool(b) == [t |-> "bool", v |-> b]
Null == [t |-> "null", v |-> 0]
Arr(s) == [t |-> "arr", v |-> s]
\* An object is the sequence of its <<key, value>> items in insertion order.
Obj(s) == [t |-> "obj", v |-> s]
Ref(a) == [t |-> "ref", v |-> a]

Keys(items) == {items[i][1] : i \in 1..Len(items)}
HasKey(items, k) == \E i \in 1..Len(items) : items[i][1] = k
IndexOf(items, k) == CHOOSE i \in 1..Len(items) : items[i][1] = k
Lookup(items, k) == items[IndexOf(items, k)][2]

(***************************************************************************)
(* str.rstrip(chars) and str.lstrip().  A character is written as itself   *)
(* where a TLA+ string can hold it and by its code point, "U+000B", where  *)
(* it cannot.  Whitespace is every character str.isspace() is true of,     *)
(* which is what lstrip() with no argument strips.                         *)
(***************************************************************************)
PunctChars == {".", ",", "!", "?"}
Whitespace ==
    {"\t", "\n", "U+000B", "\f", "\r", "U+001C", "U+001D", "U+001E",
     "U+001F", " ", "U+0085", "U+00A0", "U+1680", "U+2000", "U+2001",
     "U+2002", "U+2003", "U+2004", "U+2005", "U+2006", "U+2007", "U+2008",
     "U+2009", "U+200A", "U+2028", "U+2029", "U+202F", "U+205F", "U+3000"}

RECURSIVE rstrip(_, _)
rstrip(s, chars) ==
    IF s = <<>> \/ s[Len(s)] \notin chars THEN s
    ELSE rstrip(SubSeq(s, 1, Len(s) - 1), chars)

RECURSIVE lstrip(_)
lstrip(s) ==
    IF s = <<>> \/ s[1] \notin Whitespace THEN s
    ELSE lstrip(Tail(s))

(***************************************************************************)
(* The object heap.  json.loads builds a fresh object for every array and  *)
(* object of the text it parses; Deref reads the value an object graph     *)
(* holds at the moment it is read.                                         *)
(***************************************************************************)
RECURSIVE Alloc(_, _), AllocElems(_, _), AllocItems(_, _)
Alloc(h, x) ==
    IF x.t = "arr" THEN
        LET r == AllocElems(h, x.v)
        IN  [h |-> Append(r.h, [t |-> "arr", v |-> r.vs]), r |-> Ref(Len(r.h) + 1)]
    ELSE IF x.t = "obj" THEN
        LET r == AllocItems(h, x.v)
        IN  [h |-> Append(r.h, [t |-> "obj", v |-> r.vs]), r |-> Ref(Len(r.h) + 1)]
    ELSE [h |-> h, r |-> x]
AllocElems(h, xs) ==
    IF xs = <<>> THEN [h |-> h, vs |-> <<>>]
    ELSE LET a == Alloc(h, Head(xs))
             rest == AllocElems(a.h, Tail(xs))
         IN  [h |-> rest.h, vs |-> <<a.r>> \o rest.vs]
AllocItems(h, xs) ==
    IF xs = <<>> THEN [h |-> h, vs |-> <<>>]
    ELSE LET a == Alloc(h, Head(xs)[2])
             rest == AllocItems(a.h, Tail(xs))
         IN  [h |-> rest.h, vs |-> << <<Head(xs)[1], a.r>> >> \o rest.vs]

RECURSIVE Deref(_, _)
Deref(h, x) ==
    IF x.t # "ref" THEN x
    ELSE LET o == h[x.v]
         IN  IF o.t = "arr"
             THEN Arr([i \in 1..Len(o.v) |-> Deref(h, o.v[i])])
             ELSE Obj([i \in 1..Len(o.v) |-> <<o.v[i][1], Deref(h, o.v[i][2])>>])

IsDict(h, x) == x.t = "ref" /\ h[x.v].t = "obj"
IsList(h, x) == x.t = "ref" /\ h[x.v].t = "arr"
IsStr(x) == x.t = "str"

(***************************************************************************)
(* merge_json(existing, new).  The result is [h |-> heap after the call,   *)
(* r |-> returned value].                                                  *)
(***************************************************************************)
\* existing[key] = ... on the dict at address ea
SetItem(h, ea, k, val) ==
    LET items == h[ea].v
    IN  IF HasKey(items, k)
        THEN [h EXCEPT ![ea].v[IndexOf(items, k)] = <<k, val>>]
        ELSE [h EXCEPT ![ea].v = Append(items, <<k, val>>)]

\* a merge that drops the elements of new the list already holds
ListConcatDedup(h, e, n) ==
    LET old == h[e.v].v
        add == SelectSeq(h[n.v].v, LAMBDA x : \A i \in 1..Len(old) : old[i] # x)
    IN  [h |-> Append(h, [t |-> "arr", v |-> old \o add]), r |-> Ref(Len(h) + 1)]

\* existing + new on two lists: a new list holding the same elements
ListConcat(h, e, n) ==
    [h |-> Append(h, [t |-> "arr", v |-> h[e.v].v \o h[n.v].v]), r |-> Ref(Len(h) + 1)]

\* a join that also strips the white space at the end of existing
StrJoinStripSpace(e, n) ==
    Str(rstrip(e.v, PunctChars \cup Whitespace) \o <<" ">> \o lstrip(n.v))

\* a join that keeps new alone, as for values of different types
StrJoinLastWins(e, n) == n

\* existing.rstrip('.,!?') + ' ' + new.lstrip()
StrJoin(e, n) == Str(rstrip(e.v, PunctChars) \o <<" ">> \o lstrip(n.v))

\* existing.update(new): a key of both takes the value of new, unmerged
RECURSIVE MergeItemsUpdate(_, _, _, _)
MergeItemsUpdate(h, ea, na, i) ==
    IF i > Len(h[na].v) THEN h
    ELSE MergeItemsUpdate(SetItem(h, ea, h[na].v[i][1], h[na].v[i][2]), ea, na, i + 1)

RECURSIVE merge_json(_, _, _), MergeItems(_, _, _, _)
merge_json(h, existing, new) ==
    IF IsDict(h, existing) /\ IsDict(h, new) THEN
        [h |-> MergeItems(h, existing.v, new.v, 1), r |-> existing]
    ELSE IF IsList(h, existing) /\ IsList(h, new) THEN ListConcat(h, existing, new)
    ELSE IF IsStr(existing) /\ IsStr(new) THEN [h |-> h, r |-> StrJoin(existing, new)]
    ELSE [h |-> h, r |-> new]
\* the loop "for key, value in new.items()" from its i-th item on
MergeItems(h, ea, na, i) ==
    IF i > Len(h[na].v) THEN h
    ELSE LET key == h[na].v[i][1]
             value == h[na].v[i][2]
         IN  IF HasKey(h[ea].v, key)
             THEN LET m == merge_json(h, Lookup(h[ea].v, key), value)
                  IN  MergeItems(SetItem(m.h, ea, key, m.r), ea, na, i + 1)
             ELSE MergeItems(SetItem(h, ea, key, value), ea, na, i + 1)

\* merge_json on two freshly parsed JSON values, read back as a JSON value
MergeValues(a, b) ==
    LET ha == Alloc(<<>>, a)
        hb == Alloc(ha.h, b)
        m == merge_json(hb.h, ha.r, hb.r)
    IN  Deref(m.h, m.r)

(***************************************************************************)
(* json.dumps(value, ensure_ascii=False, separators=(',', ':')): the       *)
(* compact text of a JSON value, as a sequence of characters.              *)
(***************************************************************************)
DigitChars == <<"0", "1", "2", "3", "4", "5", "6", "7", "8", "9">>

RECURSIVE Digits(_)
Digits(n) ==
    IF n < 10 THEN <<DigitChars[n + 1]>>
    ELSE Digits(n \div 10) \o <<DigitChars[(n % 10) + 1]>>

\* the control characters of the model that json.dumps writes as \u00xx
ControlEscapes ==
    [c \in {"U+000B", "U+001C", "U+001D", "U+001E", "U+001F"} |->
       CASE c = "U+000B" -> <<"0", "0", "0", "b">>
         [] c = "U+001C" -> <<"0", "0", "1", "c">>
         [] c = "U+001D" -> <<"0", "0", "1", "d">>
         [] c = "U+001E" -> <<"0", "0", "1", "e">>
         [] c = "U+001F" -> <<"0", "0", "1", "f">>]

\* the escapes json.dumps writes for the characters of the model's alphabet;
\* with ensure_ascii=False a character above U+007F is written as it is
EscapeChar(c) ==
    CASE c = "\"" -> <<"\\", "\"">>
      [] c = "\\" -> <<"\\", "\\">>
      [] c = "\n" -> <<"\\", "n">>
      [] c = "\r" -> <<"\\", "r">>
      [] c = "\t" -> <<"\\", "t">>
      [] c = "\f" -> <<"\\", "f">>
      [] c \in DOMAIN ControlEscapes -> <<"\\", "u">> \o ControlEscapes[c]
      [] OTHER -> <<c>>

RECURSIVE Escape(_)
Escape(s) == IF s = <<>> THEN <<>> ELSE EscapeChar(Head(s)) \o Escape(Tail(s))

Quote(s) == <<"\"">> \o Escape(s) \o <<"\"">>

RECURSIVE Dumps(_), DumpElems(_), DumpItems(_)
Dumps(x) ==
    CASE x.t = "num" -> Digits(x.v)
      [] x.t = "str" -> Quote(x.v)
      [] x.t = "bool" -> IF x.v THEN <<"t", "r", "u", "e">> ELSE <<"f", "a", "l", "s", "e">>
      [] x.t = "null" -> <<"n", "u", "l", "l">>
      [] x.t = "arr" -> <<"[">> \o DumpElems(x.v) \o <<"]">>
      [] x.t = "obj" -> <<"{">> \o DumpItems(x.v) \o <<"}">>
DumpElems(xs) ==
    IF xs = <<>> THEN <<>>
    ELSE Dumps(Head(xs)) \o (IF Len(xs) > 1 THEN <<",">> ELSE <<>>) \o DumpElems(Tail(xs))
DumpItems(xs) ==
    IF xs = <<>> THEN <<>>
    ELSE Quote(Head(xs)[1]) \o <<":">> \o Dumps(Head(xs)[2])
         \o (IF Len(xs) > 1 THEN <<",">> ELSE <<>>) \o DumpItems(Tail(xs))

(***************************************************************************)
(* custom_json_format: re.sub(r'}(?!}*$)', '}\n', json_str).               *)
(***************************************************************************)
\* the lookahead }*$ at the position after index i: only closing braces up
\* to the end of the text, or up to a newline that ends the text
BracesToEnd(s, i) ==
    \E k \in i..Len(s) :
        /\ \A p \in i + 1..k : s[p] = "}"
        /\ k = Len(s) \/ (k = Len(s) - 1 /\ s[Len(s)] = "\n")

\* what the substitution leaves at index i of the text
Replaced(s, i) == IF s[i] = "}" /\ ~BracesToEnd(s, i) THEN <<"}", "\n">> ELSE <<s[i]>>

\* the substituted text of s[lo..hi], by halves
RECURSIVE FormatRange(_, _, _)
FormatRange(s, lo, hi) ==
    IF lo > hi THEN <<>>
    ELSE IF lo = hi THEN Replaced(s, lo)
    ELSE LET mid == (lo + hi) \div 2
         IN  FormatRange(s, lo, mid) \o FormatRange(s, mid + 1, hi)

custom_json_format(json_str) == FormatRange(json_str, 1, Len(json_str))

(***************************************************************************)
(* json.loads, for the texts the model writes: white space between tokens  *)
(* is skipped, a raw control character inside a string is an error.        *)
(***************************************************************************)
ParseError == [t |-> "error", v |-> 0]
JsonSpace == {" ", "\t", "\n", "\r"}
ControlChars == {"\t", "\n", "\f", "\r"} \cup DOMAIN ControlEscapes
Bad(i) == [ok |-> FALSE, v |-> ParseError, i |-> i]
Good(x, i) == [ok |-> TRUE, v |-> x, i |-> i]

RECURSIVE SkipSpace(_, _)
SkipSpace(s, i) == IF i <= Len(s) /\ s[i] \in JsonSpace THEN SkipSpace(s, i + 1) ELSE i

Unescape(c) ==
    CASE c = "n" -> "\n" [] c = "r" -> "\r" [] c = "t" -> "\t" [] c = "f" -> "\f"
      [] OTHER -> c

\* s holds at index i the four digits of a \u escape of the model's alphabet
IsControlEscape(s, i) ==
    i + 3 <= Len(s) /\ \E c \in DOMAIN ControlEscapes : ControlEscapes[c] = SubSeq(s, i, i + 3)
ControlOf(s, i) ==
    CHOOSE c \in DOMAIN ControlEscapes : ControlEscapes[c] = SubSeq(s, i, i + 3)

\* the index of the first quote, backslash or control character of s from
\* index i on, Len(s) + 1 when there is none: the scanner reads a string
\* literal a run of plain characters at a time
ChunkEnd(s, i) ==
    LET T == {j \in i..Len(s) : s[j] \in {"\"", "\\"} \cup ControlChars}
    IN  IF T = {} THEN Len(s) + 1 ELSE CHOOSE j \in T : \A k \in T : j <= k

\* the characters of a string literal from index i (after the opening quote)
RECURSIVE ScanString(_, _, _)
ScanString(s, i, acc) ==
    LET j == ChunkEnd(s, i)
        chunk == acc \o SubSeq(s, i, j - 1)
    IN  IF j > Len(s) \/ s[j] \in ControlChars THEN Bad(j)
        ELSE IF s[j] = "\"" THEN Good(chunk, j + 1)
        ELSE IF j + 1 <= Len(s) /\ s[j + 1] = "u" /\ IsControlEscape(s, j + 2)
            THEN ScanString(s, j + 6, Append(chunk, ControlOf(s, j + 2)))
        ELSE IF j + 1 > Len(s) \/ s[j + 1] \notin {"\"", "\\", "n", "r", "t", "f"} THEN Bad(j)
        ELSE ScanString(s, j + 2, Append(chunk, Unescape(s[j + 1])))

DigitValue(c) == (CHOOSE d \in 1..10 : DigitChars[d] = c) - 1
IsDigit(c) == \E d \in 1..10 : DigitChars[d] = c

RECURSIVE ScanNumber(_, _, _)
ScanNumber(s, i, acc) ==
    IF i <= Len(s) /\ IsDigit(s[i]) THEN ScanNumber(s, i + 1, 10 * acc + DigitValue(s[i]))
    ELSE Good(Num(acc), i)

StartsWith(s, i, w) == i + Len(w) - 1 <= Len(s) /\ SubSeq(s, i, i + Len(w) - 1) = w

RECURSIVE ParseValue(_, _), ParseElems(_, _, _), ParseItems(_, _, _)
ParseValue(s, i0) ==
    LET i == SkipSpace(s, i0)
    IN  IF i > Len(s) THEN Bad(i)
        ELSE IF s[i] = "\"" THEN
            LET r == ScanString(s, i + 1, <<>>)
            IN  IF r.ok THEN Good(Str(r.v), r.i) ELSE r
        ELSE IF IsDigit(s[i]) THEN ScanNumber(s, i, 0)
        ELSE IF StartsWith(s, i, <<"t", "r", "u", "e">>) THEN Good(Bool(TRUE), i + 4)
        ELSE IF StartsWith(s, i, <<"f", "a", "l", "s", "e">>) THEN Good(Bool(FALSE), i + 5)
        ELSE IF StartsWith(s, i, <<"n", "u", "l", "l">>) THEN Good(Null, i + 4)
        ELSE IF s[i] = "[" THEN
            LET j == SkipSpace(s, i + 1)
            IN  IF j <= Len(s) /\ s[j] = "]" THEN Good(Arr(<<>>), j + 1)
                ELSE ParseElems(s, j, <<>>)
        ELSE IF s[i] = "{" THEN
            LET j == SkipSpace(s, i + 1)
            IN  IF j <= Len(s) /\ s[j] = "}" THEN Good(Obj(<<>>), j + 1)
                ELSE ParseItems(s, j, <<>>)
        ELSE Bad(i)
ParseElems(s, i, acc) ==
    LET r == ParseValue(s, i)
        j == SkipSpace(s, r.i)
    IN  IF ~r.ok \/ j > Len(s) THEN Bad(j)
        ELSE IF s[j] = "," THEN ParseElems(s, j + 1, Append(acc, r.v))
        ELSE IF s[j] = "]" THEN Good(Arr(Append(acc, r.v)), j + 1)
        ELSE Bad(j)
ParseItems(s, i0, acc) ==
    LET i == SkipSpace(s, i0)
    IN  IF i > Len(s) \/ s[i] # "\"" THEN Bad(i)
        ELSE LET k == ScanString(s, i + 1, <<>>)
                 c == SkipSpace(s, k.i)
             IN  IF ~k.ok \/ c > Len(s) \/ s[c] # ":" THEN Bad(c)
                 ELSE LET r == ParseValue(s, c + 1)
                          j == SkipSpace(s, r.i)
                      IN  IF ~r.ok \/ j > Len(s) THEN Bad(j)
                          ELSE IF s[j] = ","
                              THEN ParseItems(s, j + 1, Append(acc, <<k.v, r.v>>))
                          ELSE IF s[j] = "}"
                              THEN Good(Obj(Append(acc, <<k.v, r.v>>)), j + 1)
                          ELSE Bad(j)

Loads(s) ==
    LET r == ParseValue(s, 1)
    IN  IF r.ok /\ SkipSpace(s, r.i) = Len(s) + 1 THEN r.v ELSE ParseError

(***************************************************************************)
(* POST /ocr: process_ocr.                                                 *)
(***************************************************************************)
KeyA == <<"a">>
KeyB == <<"b">>

MaxFiles == 2
MaxPages == 2
MaxFoldPages == 3

K_files == <<"f", "i", "l", "e", "s">>
K_filename == <<"f", "i", "l", "e", "n", "a", "m", "e">>
K_content == <<"c", "o", "n", "t", "e", "n", "t">>
K_detail == <<"d", "e", "t", "a", "i", "l">>
K_name == <<"n", "a", "m", "e">>
K_total == <<"t", "o", "t", "a", "l">>

ImgJpg == <<"i", "m", "g", ".", "j", "p", "g">>
DocPdf == <<"d", "o", "c", ".", "p", "d", "f">>
ScanPdf == <<"S", "c", "a", "n", ".", "P", "D", "F">>

\* str.lower() on the letters the file names of the model use
LowerChar(c) ==
    CASE c = "S" -> "s" [] c = "P" -> "p" [] c = "D" -> "d" [] c = "F" -> "f"
      [] OTHER -> c
Lower(s) == [i \in 1..Len(s) |-> LowerChar(s[i])]
EndsWith(s, w) == Len(s) >= Len(w) /\ SubSeq(s, Len(s) - Len(w) + 1, Len(s)) = w
\* file.filename.lower().endswith('.pdf')
IsPdf(filename) == EndsWith(Lower(filename), <<".", "p", "d", "f">>)

\* An uploaded file: its name and the number of page images convert_from_bytes
\* makes of its bytes (0: the bytes are no well-formed PDF and it raises).
File(name, n) == [filename |-> name, pages |-> n]

\* What the extraction service answers in a run: for a request of several
\* files the values of the spec's end-to-end example, for a request of one
\* file a wider set.
JaneDoc == Obj(<< <<K_name, Str(<<"J", "a", "n", "e">>)>> >>)
Total10 == Obj(<< <<K_total, Str(<<"1", "0">>)>> >>)
Total20 == Obj(<< <<K_total, Str(<<"2", "0">>)>> >>)
BraceDoc == Obj(<< <<K_total, Obj(<< <<KeyA, Str(<<"}">>)>> >>)>> >>)
RichVals == {JaneDoc, Total10, Total20, BraceDoc, Str(<<"a", ".">>), Arr(<<Num(1)>>)}
BatchStub == [image |-> {JaneDoc, Total10}, page |-> {Total10, Total20}]
SingleStub == [image |-> RichVals, page |-> RichVals]

OpenAI == <<"O", "p", "e", "n", "A", "I">>
OpenRouter == <<"O", "p", "e", "n", "R", "o", "u", "t", "e", "r">>
Other == <<"O", "t", "h", "e", "r">>
Providers == {OpenAI, OpenRouter, Other}
KnownProviders == {OpenAI, OpenRouter}

BatchFiles == {File(ImgJpg, 1)} \cup {File(DocPdf, n) : n \in 0..MaxPages}
SingleFiles == {File(ImgJpg, 1)} \cup {File(ScanPdf, n) : n \in 0..MaxFoldPages}

NoException == [kind |-> "none", text |-> <<>>, extractCalls |-> 0, rasterCalls |-> 0]
NoMerge ==
    /\ m_existing = Null /\ m_new = Null /\ m_heap = <<>> /\ m_eref = Null
    /\ m_nref = Null /\ m_ret = Null /\ m_done = TRUE

Init ==
    /\ provider \in Providers
    /\ \/ files \in UNION {[1..k -> BatchFiles] : k \in 1..MaxFiles} /\ stub = BatchStub
       \/ files \in [1..1 -> SingleFiles] /\ stub = SingleStub
    /\ pc = "loop"
    /\ heap = <<>>
    /\ fi = 1
    /\ pg = 0
    /\ pdf_json_data = Null
    /\ all_json_data = <<>>
    /\ merged_json_data = Null
    /\ responses = <<>>
    /\ extracted = <<>>
    /\ raised = NoException
    /\ rasterCalls = 0
    /\ extractCalls = 0
    /\ NoMerge

\* a loop that goes on to the next file after an exception
AfterRaiseContinue == "loop"

\* raise HTTPException(...) ends the handler
AfterRaise == "done"

\* str(e) of the exceptions the handler can meet: the text pdf2image gives
\* for bytes that are no PDF, a text of a failed extraction call, and the
\* text of the ValueError of the provider dispatch
RasterErrorTexts ==
    {<<"U", "n", "a", "b", "l", "e", " ", "t", "o", " ", "g", "e", "t", " ",
       "p", "a", "g", "e", " ", "c", "o", "u", "n", "t", ".">>}
ExtractErrorTexts ==
    {<<"s", "e", "r", "v", "i", "c", "e", " ", "f", "a", "i", "l", "e", "d">>}
UnsupportedProvider(p) ==
    <<"U", "n", "s", "u", "p", "p", "o", "r", "t", "e", "d", " ", "p", "r",
      "o", "v", "i", "d", "e", "r", ":", " ">>
    \o p

\* FastAPI's response to HTTPException(status_code=500,
\* detail=f"Error processing request: {str(e)}")
ErrorBody(text) ==
    Dumps(Obj(<< <<K_detail,
                   Str(<<"E", "r", "r", "o", "r", " ", "p", "r", "o", "c",
                         "e", "s", "s", "i", "n", "g", " ", "r", "e", "q",
                         "u", "e", "s", "t", ":", " ">>
                       \o text)>> >>))

\* except Exception as e: raise HTTPException(status_code=500, ...), with
\* text the str(e) of the exception and rc and ec the calls of
\* convert_from_bytes and process_image_* made so far
Raise(kind, text, rc, ec) ==
    /\ raised' = [kind |-> kind, text |-> text, extractCalls |-> ec, rasterCalls |-> rc]
    /\ responses' = Append(responses, [status |-> 500, body |-> ErrorBody(text)])
    /\ pc' = AfterRaise
    /\ rasterCalls' = rc
    /\ extractCalls' = ec
    /\ UNCHANGED <<provider, files, stub, heap, fi, pg, pdf_json_data, all_json_data,
                   merged_json_data, extracted, mergeVars>>

AtFile == pc = "loop" /\ fi <= Len(files)

\* images = convert_from_bytes(file_content); pdf_json_data = {}
PdfBegin ==
    /\ AtFile /\ IsPdf(files[fi].filename)
    /\ files[fi].pages > 0
    /\ LET a == Alloc(heap, Obj(<<>>))
       IN  heap' = a.h /\ pdf_json_data' = a.r
    /\ pg' = 0
    /\ pc' = "pages"
    /\ extracted' = Append(extracted, <<>>)
    /\ rasterCalls' = rasterCalls + 1
    /\ UNCHANGED <<provider, files, stub, fi, all_json_data, merged_json_data,
                   responses, raised, extractCalls, mergeVars>>

\* convert_from_bytes raises on bytes that are no PDF
PdfBeginFails ==
    /\ AtFile /\ IsPdf(files[fi].filename)
    /\ files[fi].pages = 0
    /\ \E text \in RasterErrorTexts :
          Raise("RasterizationError", text, rasterCalls + 1, extractCalls)

\* the merge of a page into the accumulator, with the arguments swapped
FoldStepSwapped(h, acc, page) == merge_json(h, page, acc)

\* pdf_json_data = merge_json(pdf_json_data, page_json_data)
FoldStep(h, acc, page) == merge_json(h, acc, page)

InPages == pc = "pages" /\ pg < files[fi].pages

\* one iteration of "for image in images" with a known provider whose call
\* returns the parsed JSON value page_json_data
PdfPage ==
    /\ InPages
    /\ provider \in KnownProviders
    /\ \E page_json_data \in stub.page :
          LET a == Alloc(heap, page_json_data)
              m == FoldStep(a.h, pdf_json_data, a.r)
          IN  /\ heap' = m.h
              /\ pdf_json_data' = m.r
              /\ extracted' = [extracted EXCEPT ![fi] = Append(@, page_json_data)]
    /\ pg' = pg + 1
    /\ extractCalls' = extractCalls + 1
    /\ UNCHANGED <<provider, files, stub, pc, fi, all_json_data, merged_json_data,
                   responses, raised, rasterCalls, mergeVars>>

\* process_image_openai / process_image_openrouter raises
PdfPageFails ==
    /\ InPages
    /\ provider \in KnownProviders
    /\ \E text \in ExtractErrorTexts :
          Raise("ExtractionError", text, rasterCalls, extractCalls + 1)

\* raise ValueError(f"Unsupported provider: {provider}")
PdfPageBadProvider ==
    /\ InPages
    /\ provider \notin KnownProviders
    /\ Raise("ValueError", UnsupportedProvider(provider), rasterCalls, extractCalls)

\* a record put in front of the list
PrependRecord(all, filename, content) ==
    <<[filename |-> filename, content |-> content]>> \o all

\* all_json_data.append({"filename": file.filename, "content": ...})
AppendRecord(all, filename, content) ==
    Append(all, [filename |-> filename, content |-> content])

\* after the last page: the record of the PDF
PdfEnd ==
    /\ pc = "pages" /\ pg = files[fi].pages
    /\ all_json_data' = AppendRecord(all_json_data, files[fi].filename, pdf_json_data)
    /\ fi' = fi + 1
    /\ pc' = "loop"
    /\ UNCHANGED <<provider, files, stub, heap, pg, pdf_json_data, merged_json_data,
                   responses, extracted, raised, rasterCalls, extractCalls, mergeVars>>

\* a file that is no PDF: one call of the extractor, its result the content
Image ==
    /\ AtFile /\ ~IsPdf(files[fi].filename)
    /\ provider \in KnownProviders
    /\ \E json_data \in stub.image :
          LET a == Alloc(heap, json_data)
          IN  /\ heap' = a.h
              /\ all_json_data' = AppendRecord(all_json_data, files[fi].filename, a.r)
              /\ extracted' = Append(extracted, <<json_data>>)
    /\ fi' = fi + 1
    /\ extractCalls' = extractCalls + 1
    /\ UNCHANGED <<provider, files, stub, pc, pg, pdf_json_data, merged_json_data,
                   responses, raised, rasterCalls, mergeVars>>

ImageFails ==
    /\ AtFile /\ ~IsPdf(files[fi].filename)
    /\ provider \in KnownProviders
    /\ \E text \in ExtractErrorTexts :
          Raise("ExtractionError", text, rasterCalls, extractCalls + 1)

ImageBadProvider ==
    /\ AtFile /\ ~IsPdf(files[fi].filename)
    /\ provider \notin KnownProviders
    /\ Raise("ValueError", UnsupportedProvider(provider), rasterCalls, extractCalls)

\* merged_json_data = {"files": all_json_data}, as json.dumps reads it
Envelope(h, all) ==
    Obj(<< <<K_files,
             Arr([i \in 1..Len(all) |->
                    Obj(<< <<K_filename, Str(all[i].filename)>>,
                           <<K_content, Deref(h, all[i].content)>> >>)])>> >>)

\* after the last file: the envelope, its compact text, the formatted body
Respond ==
    /\ pc = "loop" /\ fi > Len(files)
    /\ merged_json_data' = Envelope(heap, all_json_data)
    /\ \E json_str \in {Dumps(Envelope(heap, all_json_data))} :
          \E formatted_json \in {custom_json_format(json_str)} :
             responses' = Append(responses, [status |-> 200, body |-> formatted_json])
    /\ pc' = "done"
    /\ UNCHANGED <<provider, files, stub, heap, fi, pg, pdf_json_data, all_json_data,
                   extracted, raised, rasterCalls, extractCalls, mergeVars>>

Next ==
    \/ PdfBegin
    \/ PdfBeginFails
    \/ PdfPage
    \/ PdfPageFails
    \/ PdfPageBadProvider
    \/ PdfEnd
    \/ Image
    \/ ImageFails
    \/ ImageBadProvider
    \/ Respond

Spec == Init /\ [][Next]_vars

(***************************************************************************)
(* Direct calls of merge_json on two JSON values.                          *)
(***************************************************************************)
MaxArrLen == 2
MaxStrLen == 2

SeqUpTo(S, n) == UNION {[1..k -> S] : k \in 0..n}

StrChars == {"a", ".", "?", " ", "\n", "\f", "U+00A0"}
StrVals == {Str(s) : s \in SeqUpTo(StrChars, MaxStrLen)}

Scalars == {Num(1), Num(2), Str(<<"a", ".">>), Str(<<" ", "b">>), Bool(TRUE), Null}
Arrays == {Arr(s) : s \in SeqUpTo({Num(1), Num(2)}, MaxArrLen)}
ObjArrays == {Arr(<<Obj(<< <<KeyA, Num(1)>> >>)>>)}
Flat == Scalars \cup Arrays \cup ObjArrays
Objs1 ==
    {Obj(<<>>)}
    \cup {Obj(<< <<k, x>> >>) : k \in {KeyA, KeyB}, x \in Flat}
    \cup {Obj(<< <<k[1], x>>, <<k[2], y>> >>) :
            k \in {<<KeyA, KeyB>>, <<KeyB, KeyA>>},
            x \in {Num(1), Str(<<"a", ".">>)}, y \in {Num(1), Str(<<"a", ".">>)}}
Objs2 == {Obj(<< <<KeyA, o>> >>) : o \in Objs1}
ExampleNew == Obj(<< <<KeyA, Num(2)>>, <<KeyB, Num(3)>> >>)
JsonVals == Flat \cup Objs1 \cup Objs2 \cup {ExampleNew}

NoOcr ==
    /\ provider = <<>> /\ files = <<>> /\ stub = [image |-> {}, page |-> {}] /\ pc = "off" /\ heap = <<>>
    /\ fi = 0 /\ pg = 0 /\ pdf_json_data = Null /\ all_json_data = <<>>
    /\ merged_json_data = Null /\ responses = <<>> /\ extracted = <<>>
    /\ raised = NoException /\ rasterCalls = 0 /\ extractCalls = 0

MergeInit ==
    /\ \/ m_existing \in JsonVals /\ m_new \in JsonVals
       \/ m_existing \in StrVals /\ m_new \in StrVals
    /\ LET ha == Alloc(<<>>, m_existing)
           hb == Alloc(ha.h, m_new)
       IN  m_heap = hb.h /\ m_eref = ha.r /\ m_nref = hb.r
    /\ m_ret = Null
    /\ m_done = FALSE
    /\ NoOcr

\* ret = merge_json(existing, new)
MergeCall ==
    /\ ~m_done
    /\ LET m == merge_json(m_heap, m_eref, m_nref)
       IN  m_heap' = m.h /\ m_ret' = m.r
    /\ m_done' = TRUE
    /\ UNCHANGED <<m_existing, m_new, m_eref, m_nref, ocrVars>>

MergeNext == MergeCall
MergeSpec == MergeInit /\ [][MergeNext]_vars

\* the returned value, as a JSON value
MergeResult == Deref(m_heap, m_ret)

(***************************************************************************)
(* Claims about merge_json, checked under MergeSpec.                       *)
(***************************************************************************)
BothAre(tag) == m_done /\ m_existing.t = tag /\ m_new.t = tag

\* C1: the merge of two objects is an object over the union of the two key
\* sets; a key of existing alone keeps its value, a key of new alone holds
\* new's value, and a key of both holds the merge of the two values at it.
\* merge({"a":1}, {"a":2,"b":3}) is {"a":2,"b":3}.
C1_ObjectMerge ==
    BothAre("obj") =>
        LET e == m_existing.v
            n == m_new.v
            r == MergeResult
        IN  /\ r.t = "obj"
            /\ Keys(r.v) = Keys(e) \cup Keys(n)
            /\ Cardinality(Keys(r.v)) = Len(r.v)
            /\ \A k \in Keys(r.v) :
                  Lookup(r.v, k) =
                     IF HasKey(e, k) /\ HasKey(n, k)
                     THEN MergeValues(Lookup(e, k), Lookup(n, k))
                     ELSE IF HasKey(e, k) THEN Lookup(e, k) ELSE Lookup(n, k)
            /\ (m_existing = Obj(<< <<KeyA, Num(1)>> >>) /\ m_new = ExampleNew)
                  => r = ExampleNew

C1_Witness ==
    /\ BothAre("obj")
    /\ m_existing = Obj(<< <<KeyB, Num(1)>>, <<KeyA, Str(<<"a", ".">>)>> >>)
    /\ m_new = Obj(<< <<KeyA, Obj(<<>>)>> >>)
    /\ MergeResult = Obj(<< <<KeyB, Num(1)>>, <<KeyA, Obj(<<>>)>> >>)

\* r is a without its longest tail of characters of tailChars, one space,
\* and b without its leading white space
IsStripJoin(a, b, r, tailChars) ==
    \E i \in 0..Len(a), j \in 1..Len(b) + 1 :
        /\ \A p \in i + 1..Len(a) : a[p] \in tailChars
        /\ i = 0 \/ a[i] \notin tailChars
        /\ \A q \in 1..j - 1 : b[q] \in Whitespace
        /\ j = Len(b) + 1 \/ b[j] \notin Whitespace
        /\ r = SubSeq(a, 1, i) \o <<" ">> \o SubSeq(b, j, Len(b))

\* C2 as stated: the merge of two strings is a without its trailing
\* punctuation and trailing white space, one space, b without its leading
\* white space.
C2_StripsPunctAndSpace ==
    BothAre("str") =>
        /\ MergeResult.t = "str"
        /\ IsStripJoin(m_existing.v, m_new.v, MergeResult.v, PunctChars \cup Whitespace)

\* C2 amended: the merge of two strings is a without its trailing run of
\* the characters . , ! ? (white space at the end of a is kept and stops
\* the stripping), one space, b without its leading white space.
C2_StripsPunctOnly ==
    BothAre("str") =>
        /\ MergeResult.t = "str"
        /\ IsStripJoin(m_existing.v, m_new.v, MergeResult.v, PunctChars)

C2_Witness ==
    /\ BothAre("str")
    /\ m_existing.v = <<".", " ">>
    /\ m_new.v = <<" ", "a">>
    /\ MergeResult.v = <<".", " ", " ", "a">>

\* C3: the merge of two arrays is existing followed by new: every element
\* of both, in order, duplicates kept, no element merged with another.
C3_ArrayConcat ==
    BothAre("arr") =>
        LET a == m_existing.v
            b == m_new.v
            r == MergeResult
        IN  /\ r.t = "arr"
            /\ Len(r.v) = Len(a) + Len(b)
            /\ \A i \in 1..Len(a) : r.v[i] = a[i]
            /\ \A j \in 1..Len(b) : r.v[Len(a) + j] = b[j]

C3_Witness ==
    /\ BothAre("arr")
    /\ m_existing = Arr(<<Num(1), Num(2)>>)
    /\ m_new = Arr(<<Num(2), Num(1)>>)
    /\ MergeResult = Arr(<<Num(1), Num(2), Num(2), Num(1)>>)

\* C10: after merge_json returns, existing and new each still hold the
\* value they held before the call.
C10_InputsUnchanged ==
    m_done =>
        /\ Deref(m_heap, m_eref) = m_existing
        /\ Deref(m_heap, m_nref) = m_new

(***************************************************************************)
(* Claims about process_ocr, checked under Spec.                           *)
(***************************************************************************)
\* the handler returned its response (no exception was raised)
Returned == pc = "done" /\ raised.kind = "none"

\* the fold of merge_json over page values, each merge on fresh objects
RECURSIVE FoldSeeded(_)
FoldSeeded(ps) ==
    IF ps = <<>> THEN Obj(<<>>)
    ELSE MergeValues(FoldSeeded(SubSeq(ps, 1, Len(ps) - 1)), ps[Len(ps)])

RECURSIVE FoldUnseeded(_)
FoldUnseeded(ps) ==
    IF Len(ps) = 1 THEN ps[1]
    ELSE MergeValues(FoldUnseeded(SubSeq(ps, 1, Len(ps) - 1)), ps[Len(ps)])

Record(filename, content) ==
    Obj(<< <<K_filename, Str(filename)>>, <<K_content, content>> >>)
EnvelopeOf(records) == Obj(<< <<K_files, Arr(records)>> >>)

\* C4: when rasterization or the extraction of a page fails, nothing more is
\* rasterized or extracted, the request ends with exactly one response, a
\* server error, and that response carries no envelope and no file record.
C4_AllOrNothing ==
    raised.kind \in {"RasterizationError", "ExtractionError"} =>
        /\ pc = "done"
        /\ extractCalls = raised.extractCalls
        /\ rasterCalls = raised.rasterCalls
        /\ Len(responses) = 1
        /\ responses[1].status = 500
        /\ Loads(responses[1].body).t = "obj"
        /\ Keys(Loads(responses[1].body).v) = {K_detail}
        /\ merged_json_data = Null
        /\ ~HasKey(Loads(responses[1].body).v, K_files)

C4_Witness ==
    /\ raised.kind = "ExtractionError"
    /\ Len(files) = 2 /\ fi = 2 /\ Len(all_json_data) = 1
    /\ IsPdf(files[2].filename) /\ pg = 1
    /\ pc = "done" /\ Len(responses) = 1

\* C5: after a successful request the envelope has one record per uploaded
\* file, in upload order; record i carries the name of file i and the
\* content computed from the pages of file i alone.
C5_UploadOrder ==
    Returned =>
        LET recs == Lookup(merged_json_data.v, K_files).v
        IN  /\ Len(recs) = Len(files)
            /\ \A i \in 1..Len(files) :
                  recs[i] = Record(files[i].filename,
                                   IF IsPdf(files[i].filename)
                                   THEN FoldSeeded(extracted[i])
                                   ELSE extracted[i][1])

C5_Witness ==
    /\ Returned
    /\ files = <<File(DocPdf, 2), File(ImgJpg, 1)>>
    /\ extracted = << <<Total20, Total10>>, <<JaneDoc>> >>
    /\ Len(Lookup(merged_json_data.v, K_files).v) = 2

\* C6: a request with an unknown provider is answered with a client error,
\* before any rasterization or extraction is done for any of its files.
C6_ClientErrorBeforeWork ==
    (pc = "done" /\ provider \notin KnownProviders) =>
        /\ Len(responses) = 1
        /\ responses[1].status \in 400..499
        /\ rasterCalls = 0
        /\ extractCalls = 0

\* the number of backslashes right before index j
BackslashRun(s, j) == Cardinality({k \in 1..j - 1 : \A q \in j - k..j - 1 : s[q] = "\\"})
\* index i of a JSON text lies inside a string literal
InString(s, i) ==
    Cardinality({j \in 1..i - 1 : s[j] = "\"" /\ BackslashRun(s, j) % 2 = 0}) % 2 = 1
\* the closing braces of the objects of a JSON text
Closers(s) == {i \in 1..Len(s) : s[i] = "}" /\ ~InString(s, i)}

RECURSIVE NewlineAfter(_, _, _, _)
NewlineAfter(s, at, lo, hi) ==
    IF lo > hi THEN <<>>
    ELSE IF lo = hi THEN (IF lo \in at THEN <<s[lo], "\n">> ELSE <<s[lo]>>)
    ELSE LET mid == (lo + hi) \div 2
         IN  NewlineAfter(s, at, lo, mid) \o NewlineAfter(s, at, mid + 1, hi)

\* C7: the body is the compact text of the envelope with one newline after
\* every closing brace of an object but the last, nothing else changed, and
\* it parses to the JSON value the compact text parses to.
C7_FormatKeepsValue ==
    Returned =>
        LET json_str == Dumps(merged_json_data)
            body == responses[1].body
        IN  /\ body = NewlineAfter(json_str, Closers(json_str) \ {Len(json_str)},
                                   1, Len(json_str))
            /\ Loads(json_str) = merged_json_data
            /\ Loads(body) = Loads(json_str)

\* the request of the end-to-end example and the answers of its extractor
Example ==
    /\ Returned
    /\ files = <<File(ImgJpg, 1), File(DocPdf, 2)>>
    /\ extracted = << <<JaneDoc>>, <<Total10, Total20>> >>

\* C8 as stated: the example yields {"total":"20"} for doc.pdf.
C8_LastStringWins ==
    Example => merged_json_data = EnvelopeOf(<<Record(ImgJpg, JaneDoc), Record(DocPdf, Total20)>>)

Total1020 == Obj(<< <<K_total, Str(<<"1", "0", " ", "2", "0">>)>> >>)

\* C8 amended: the content of a file that is no PDF is its page's extraction
\* result; when the two pages of a PDF are objects with a string under the
\* same single key, the content holds under that key the first string
\* without its trailing . , ! ? then one space then the second string
\* without its leading white space; the example yields {"total":"10 20"}
\* for doc.pdf, in the envelope and in the parsed response body.
C8_StringsJoined ==
    Returned =>
        LET recs == Lookup(merged_json_data.v, K_files).v
        IN  /\ \A i \in 1..Len(files) :
                  /\ ~IsPdf(files[i].filename) =>
                        recs[i] = Record(files[i].filename, extracted[i][1])
                  /\ ( /\ IsPdf(files[i].filename)
                       /\ Len(extracted[i]) = 2
                       /\ \A j \in 1..2 : /\ extracted[i][j].t = "obj"
                                          /\ Len(extracted[i][j].v) = 1
                                          /\ extracted[i][j].v[1][2].t = "str"
                       /\ extracted[i][1].v[1][1] = extracted[i][2].v[1][1] ) =>
                        LET key == extracted[i][1].v[1][1]
                            got == Lookup(recs[i].v, K_content)
                        IN  /\ Keys(got.v) = {key}
                            /\ Lookup(got.v, key).t = "str"
                            /\ IsStripJoin(extracted[i][1].v[1][2].v,
                                           extracted[i][2].v[1][2].v,
                                           Lookup(got.v, key).v, PunctChars)
            /\ Example =>
                  /\ merged_json_data =
                        EnvelopeOf(<<Record(ImgJpg, JaneDoc), Record(DocPdf, Total1020)>>)
                  /\ Loads(responses[1].body) = merged_json_data

C8_Witness ==
    /\ Example
    /\ Lookup(merged_json_data.v, K_files).v[2] = Record(DocPdf, Total1020)
    /\ responses[1].status = 200

\* C9: the content of a PDF is the left-to-right fold of merge over its
\* pages' results seeded with the empty object, at every page of the fold
\* and in its record; merging a value into the empty object gives the
\* value, so this is also the fold without the seed.
C9_PageFold ==
    /\ \A x \in stub.page : MergeValues(Obj(<<>>), x) = x
    /\ pc = "pages" =>
          /\ Deref(heap, pdf_json_data) = FoldSeeded(extracted[fi])
          /\ pg > 0 => Deref(heap, pdf_json_data) = FoldUnseeded(extracted[fi])
    /\ Returned =>
          \A i \in 1..Len(files) :
              IsPdf(files[i].filename) =>
                 /\ Deref(heap, all_json_data[i].content) = FoldSeeded(extracted[i])
                 /\ Deref(heap, all_json_data[i].content) = FoldUnseeded(extracted[i])

C9_Witness ==
    /\ Returned
    /\ files = <<File(ScanPdf, 3)>>
    /\ extracted = << <<Total10, BraceDoc, BraceDoc>> >>
    /\ Deref(heap, all_json_data[1].content) =
          Obj(<< <<K_total, Obj(<< <<KeyA, Str(<<"}", " ", "}">>)>> >>)>> >>)
    /\ Deref(heap, all_json_data[1].content) =
          MergeValues(MergeValues(Total10, BraceDoc), BraceDoc)

====
